---- MODULE Spec2Model ----
(***************************************************************************)
(* Admin console of the connector / credential workflow: the Notion, Slack *)
(* and Google Drive connector pages and the Slack bot configuration page.  *)
(* One behaviour is one visit of one page: the page is mounted, its SWR    *)
(* keys are fetched, the user clicks, every click runs its handler up to   *)
(* its first await, and every response runs the rest of the handler up to  *)
(* the next await (the JavaScript event loop: a callback is atomic).       *)
(***************************************************************************)
EXTENDS Integers, Sequences, FiniteSets, TLC

VARIABLES
  page,        \* the page this visit mounted
  mounted,     \* the page component is still mounted
  navigated,   \* router.push(auth_url) was called
  srvCreds,    \* backend: the credential collection, in the order it is listed
  srvConns,    \* backend: the connector collection, in the order it is listed
  srvConfigs,  \* backend: the ids of the Slack bot configs
  srvAppCred,  \* backend: Google Drive app credentials were uploaded
  nextCredId,  \* backend: the id the next created credential gets
  nextConnId,  \* backend: the id the next created connector gets
  swr,         \* the SWR cache: key -> [has, data, error, loading]
  stale,       \* keys for which mutate / refresh was signalled, not yet refetched
  popup,       \* the popup state of the page (NoPopup: null)
  timers,      \* pending popup timeouts: ms elapsed since each was set, oldest first
  procs,       \* handlers suspended at an await, in the order they were started
  last,        \* the handler that finished in the last step (NoHandler: none did)
  sel,         \* input and output of the last evaluation of the two selection filters
  tbl,         \* SlackBotConfigsTable: its configs prop, its page state, what it renders
  selector     \* SourceSelector: its props, the selected list, what it rendered

vars == <<page, mounted, navigated, srvCreds, srvConns, srvConfigs, srvAppCred,
          nextCredId, nextConnId, swr, stale, popup, timers, procs, last, sel, tbl, selector>>

srvVars == <<srvCreds, srvConns, srvConfigs, srvAppCred, nextCredId, nextConnId>>

-----------------------------------------------------------------------------
(* Bounds of the model *)

MaxInitCreds == 1      \* credentials the backend holds when the page is opened
MaxCredId == 1         \* the backend refuses to create a credential beyond this id
MaxConnId == 1         \* the backend refuses to create a connector beyond this id
MaxConfigs == 2        \* Slack bot configs the backend holds when the page is opened
MaxInFlight == 2       \* handlers suspended at an await at the same time
MaxTimers == 2         \* popup timeouts pending at the same time
TicksPerTimeout == 2   \* time advances in steps of PopupTimeoutMs / TicksPerTimeout
MaxSelLen == 2         \* length of the collections the selection filters are applied to
MaxRows == 120         \* length of the lists of bot configs the table paginates
MaxSortLen == 3        \* length of the lists of bot configs with arbitrary, repeated ids
MaxInitConns == 2      \* connectors on the server before the visit of the status row
MaxDeletes == 1        \* configs deleted from the bot table during one visit

(* Program constants *)

PopupTimeoutMs == 4000
numToDisplay == 50

-----------------------------------------------------------------------------
(* Data *)

Sources == {"slack", "notion", "google_drive"}
Pages == Sources \cup {"bot"}

MarkerKey(S) ==
  CASE S = "slack" -> "slack_bot_token"
    [] S = "notion" -> "notion_integration_token"
    [] S = "google_drive" -> "google_drive_tokens"

MarkerKeys == {MarkerKey(S) : S \in Sources}

\* A value of credential_json under a key: the key is absent (undefined), or it
\* holds the empty string, or it holds a non-empty token.
Absent == "<undefined>"
JsonVals == {Absent, "", "tok"}

\* JavaScript truthiness of such a value.
Truthy(v) == v /= Absent /\ v /= ""

EmptyJson == [k \in MarkerKeys |-> Absent]
TokenJson(S) == [k \in MarkerKeys |-> IF k = MarkerKey(S) THEN "tok" ELSE Absent]

\* undefined, as what [0] of an empty array yields
Undefined == [undefined |-> TRUE]

Range(s) == {s[i] : i \in 1..Len(s)}

Min(a, b) == IF a <= b THEN a ELSE b

RemoveAt(s, i) == [j \in 1..(Len(s) - 1) |-> IF j < i THEN s[j] ELSE s[j + 1]]

-----------------------------------------------------------------------------
(* The two selection filters of the connector pages *)

\* the filter with its test negated
SelectConnectorsForSource_OtherSources(statuses, S) ==
  SelectSeq(statuses, LAMBDA s : s.connector.source /= S)

\* connectorIndexingStatuses.filter(s => s.connector.source === S)
SelectConnectorsForSource(statuses, S) ==
  SelectSeq(statuses, LAMBDA s : s.connector.source = S)

\* the filter followed by the last element instead of the first
SelectCredentialForSource_Last(C, S) ==
  LET matching == SelectSeq(C, LAMBDA c : Truthy(c.credential_json[MarkerKey(S)]))
  IN IF Len(matching) = 0 THEN Undefined ELSE matching[Len(matching)]

\* credentialsData.filter(c => c.credential_json?.<marker key of S>)[0]
SelectCredentialForSource(C, S) ==
  LET matching == SelectSeq(C, LAMBDA c : Truthy(c.credential_json[MarkerKey(S)]))
  IN IF Len(matching) = 0 THEN Undefined ELSE matching[1]

-----------------------------------------------------------------------------
(* The SWR cache *)

StatusKey(p) ==
  IF p = "google_drive" THEN "/api/admin/connector/indexing-status"
  ELSE "/api/manage/admin/connector/indexing-status"

CredKey(p) ==
  IF p = "google_drive" THEN "/api/admin/credential" ELSE "/api/manage/credential"

AppCredKey == "/api/admin/connector/google-drive/app-credential"
BotConfigsKey == "slack-bot-configs"

AllKeys == {StatusKey(p) : p \in Pages} \cup {CredKey(p) : p \in Pages}
           \cup {AppCredKey, BotConfigsKey}

\* the keys the page's hooks subscribe to
PageKeys(p) ==
  CASE p = "google_drive" -> {AppCredKey, StatusKey(p), CredKey(p)}
    [] p = "bot" -> {BotConfigsKey}
    [] OTHER -> {StatusKey(p), CredKey(p)}

\* what a GET of the key returns now
ServerSnapshot(k) ==
  CASE k \in {StatusKey(p) : p \in Pages} ->
         [i \in 1..Len(srvConns) |-> [connector |-> srvConns[i]]]
    [] k \in {CredKey(p) : p \in Pages} -> srvCreds
    [] k = AppCredKey -> IF srvAppCred THEN <<"client_id">> ELSE <<>>
    [] k = BotConfigsKey -> srvConfigs

Unfetched == [has |-> FALSE, data |-> <<>>, error |-> FALSE, loading |-> FALSE]

\* mutate(key) / refresh(): the key is revalidated
mutate(keys) == stale' = stale \cup keys

-----------------------------------------------------------------------------
(* Popups *)

NoPopup == [type |-> "none", text |-> "", status |-> 0]

\* text is the fixed part of the message, status the HTTP status the message
\* embeds (0: it embeds none).
PopupSpec(type, text, status) == [type |-> type, text |-> text, status |-> status]

TickMs == PopupTimeoutMs \div TicksPerTimeout

\* setPopup(popupSpec) alone, without the setTimeout
setPopupWithExpiration_NoTimeout(popupSpec) ==
  /\ popup' = IF mounted THEN popupSpec ELSE popup
  /\ timers' = timers

\* setPopup(popupSpec); setTimeout(() => setPopup(null), 4000)
\* A state update of an unmounted component is dropped; the timeout is set all the same.
setPopupWithExpiration(popupSpec) ==
  /\ Len(timers) < MaxTimers
  /\ popup' = IF mounted THEN popupSpec ELSE popup
  /\ timers' = Append(timers, 0)

\* setPopup of usePopup(): the expiring notice of the Notion and bot pages
usePopupSetPopup(popupSpec) ==
  /\ Len(timers) < MaxTimers
  /\ popup' = IF mounted THEN popupSpec ELSE popup
  /\ timers' = Append(timers, 0)

-----------------------------------------------------------------------------
(* Handlers *)

\* A handler: what it captured from the render it was created in, where it is
\* suspended, and what it has done so far.
\*   cred    the id of the selected credential of that render (0: undefined)
\*   conn    the connector the handler is about (0: none yet)
\*   linked  some status of that render lists cred in connector.credential_ids
\*   nsrc    the number of statuses of the page's source in that render
\*   calls   the network calls issued, [op, id, status] (status 0: no response yet)
\*   mut     the cache keys it signalled to revalidate
\*   pop     the last popup it set
Handler(kind, cred, conn, linked, nsrc) ==
  [kind |-> kind, pc |-> "start", cred |-> cred, conn |-> conn, linked |-> linked,
   nsrc |-> nsrc, calls |-> <<>>, mut |-> {}, pop |-> NoPopup]

NoHandler == Handler("none", 0, 0, FALSE, 0)

Call(op, id) == [op |-> op, id |-> id, status |-> 0]

\* the handler issues a call and suspends at pc
Issue(h, op, id, pc) == [h EXCEPT !.calls = Append(@, Call(op, id)), !.pc = pc]

\* the pending call of the handler got its response
Answered(h, st) == [h EXCEPT !.calls[Len(h.calls)].status = st]

Ok(st) == st \in 200..299
FailStatuses == {500}
Statuses == {200} \cup FailStatuses

-----------------------------------------------------------------------------
(* What the page renders from the cache *)

StatusData == swr[StatusKey(page)].data
CredData == swr[CredKey(page)].data

\* the load guards without the test of the credentials' error
View_NoCredentialsError ==
  LET S == swr[StatusKey(page)]
      C == swr[CredKey(page)]
      A == swr[AppCredKey]
      B == swr[BotConfigsKey]
  IN CASE page \in {"notion", "slack"} ->
            IF (~S.has /\ S.loading) \/ (~C.has /\ C.loading) THEN "loading"
            ELSE IF S.error \/ ~S.has THEN "failed"
            ELSE IF ~C.has THEN "failed"
            ELSE "main"
       [] page = "google_drive" ->
            IF C.loading \/ A.loading \/ S.loading THEN "loading"
            ELSE IF ~C.has THEN "failed"
            ELSE IF S.error \/ ~S.has THEN "failed"
            ELSE IF A.error THEN "failed"
            ELSE "main"
       [] page = "bot" ->
            IF B.loading THEN "loading"
            ELSE IF B.error \/ ~B.has THEN "failed"
            ELSE "main"

\* the load guards at the top of each page component
View ==
  LET S == swr[StatusKey(page)]
      C == swr[CredKey(page)]
      A == swr[AppCredKey]
      B == swr[BotConfigsKey]
  IN CASE page \in {"notion", "slack"} ->
            IF (~S.has /\ S.loading) \/ (~C.has /\ C.loading) THEN "loading"
            ELSE IF S.error \/ ~S.has THEN "failed"
            ELSE IF C.error \/ ~C.has THEN "failed"
            ELSE "main"
       [] page = "google_drive" ->
            IF C.loading \/ A.loading \/ S.loading THEN "loading"
            ELSE IF C.error \/ ~C.has THEN "failed"
            ELSE IF S.error \/ ~S.has THEN "failed"
            ELSE IF A.error THEN "failed"
            ELSE "main"
       [] page = "bot" ->
            IF B.loading THEN "loading"
            ELSE IF B.error \/ ~B.has THEN "failed"
            ELSE "main"

\* the user can act on what the main view renders
CanClick == mounted /\ View = "main"

\* <source>ConnectorIndexingStatuses and <source>Credential of the render
SourceStatuses == SelectConnectorsForSource(StatusData, page)
SourceCredential == SelectCredentialForSource(CredData, page)

\* the id of the selected credential, 0 when it is undefined
CredId == IF SourceCredential = Undefined THEN 0 ELSE SourceCredential.id

\* some fetched status lists the credential in connector.credential_ids
Linked(cid) ==
  \E i \in 1..Len(StatusData) : cid \in StatusData[i].connector.credential_ids

\* the handler of this render, with what its closure captured
Capture(kind, conn) ==
  Handler(kind, CredId, conn, CredId /= 0 /\ Linked(CredId), Len(SourceStatuses))

\* which affordances the main view offers
DeleteCredentialOffered ==
  CanClick /\ page \in {"notion", "slack"} /\ SourceCredential /= Undefined

CredentialFormOffered ==
  CanClick /\ page \in {"notion", "slack"} /\ SourceCredential = Undefined

ConnectorsTableOffered ==
  CanClick /\ page \in {"notion", "slack"} /\ Len(SourceStatuses) > 0

ConnectorFormOffered ==
  /\ CanClick
  /\ \/ page = "slack"
     \/ page = "notion" /\ SourceCredential /= Undefined /\ Len(SourceStatuses) = 0

\* googleDriveConnectorIndexingStatus = googleDriveConnectorIndexingStatuses[0]
AddOffered == CanClick /\ page = "google_drive" /\ Len(SourceStatuses) = 0

DeleteConnectorOffered == CanClick /\ page = "google_drive" /\ Len(SourceStatuses) > 0

\* an issue derived from the selected credential, not from the connector
HasCredentialsIssue_FromCredential(status) == SourceCredential = Undefined

\* hasCredentialsIssue={status.connector.credential_ids.length === 0}
HasCredentialsIssue(status) == Cardinality(status.connector.credential_ids) = 0

-----------------------------------------------------------------------------
(* The backend behind the REST endpoints *)

CredExists(id) == \E i \in 1..Len(srvCreds) : srvCreds[i].id = id
ConnExists(id) == \E i \in 1..Len(srvConns) : srvConns[i].id = id
CredReferenced(id) == \E i \in 1..Len(srvConns) : id \in srvConns[i].credential_ids

\* whether the backend can answer the call with a 2xx now; it can always fail
Accepts(op, id, cred) ==
  CASE op = "POST /credential" -> nextCredId <= MaxCredId
    [] op = "DELETE /credential" -> CredExists(id) /\ ~CredReferenced(id)
    [] op = "POST /connector" -> nextConnId <= MaxConnId
    [] op = "DELETE /connector" -> ConnExists(id)
    [] op = "PUT /connector/credential" -> ConnExists(id) /\ CredExists(cred)
    [] op = "GET /authorize" -> CredExists(id)
    [] op = "PUT /app-credential" -> TRUE
    [] op = "DELETE /bot-config" -> id \in Range(srvConfigs)

\* the response to the pending call of handler h may carry status st
MayAnswer(h, st) ==
  LET c == h.calls[Len(h.calls)]
  IN st \in Statuses /\ (Ok(st) => Accepts(c.op, c.id, h.cred))

ServerCreateCredential(json) ==
  /\ srvCreds' = Append(srvCreds, [id |-> nextCredId, credential_json |-> json])
  /\ nextCredId' = nextCredId + 1
  /\ UNCHANGED <<srvConns, srvConfigs, srvAppCred, nextConnId>>

ServerDeleteCredential(id) ==
  /\ srvCreds' = SelectSeq(srvCreds, LAMBDA c : c.id /= id)
  /\ UNCHANGED <<srvConns, srvConfigs, srvAppCred, nextCredId, nextConnId>>

ServerCreateConnector(source) ==
  /\ srvConns' = Append(srvConns,
                        [id |-> nextConnId, source |-> source, credential_ids |-> {}])
  /\ nextConnId' = nextConnId + 1
  /\ UNCHANGED <<srvCreds, srvConfigs, srvAppCred, nextCredId>>

ServerDeleteConnector(id) ==
  /\ srvConns' = SelectSeq(srvConns, LAMBDA c : c.id /= id)
  /\ UNCHANGED <<srvCreds, srvConfigs, srvAppCred, nextCredId, nextConnId>>

ServerLink(connId, credId) ==
  /\ srvConns' = [i \in 1..Len(srvConns) |->
                    IF srvConns[i].id = connId
                    THEN [srvConns[i] EXCEPT !.credential_ids = @ \cup {credId}]
                    ELSE srvConns[i]]
  /\ UNCHANGED <<srvCreds, srvConfigs, srvAppCred, nextCredId, nextConnId>>

ServerUpload ==
  /\ srvAppCred' = TRUE
  /\ UNCHANGED <<srvCreds, srvConns, srvConfigs, nextCredId, nextConnId>>

ServerDeleteBotConfig(id) ==
  /\ srvConfigs' = SelectSeq(srvConfigs, LAMBDA c : c /= id)
  /\ UNCHANGED <<srvCreds, srvConns, srvAppCred, nextCredId, nextConnId>>

ServerUnchanged == UNCHANGED srvVars

-----------------------------------------------------------------------------
(* The state when the page has just been mounted *)

\* the table is not rendered
NoTbl == [input |-> <<>>, configs |-> <<>>, page |-> 1, rows |-> <<>>, totalPages |-> 0,
          rendered |-> FALSE, deleted |-> 0]

NoSel == [creds |-> <<>>, statuses |-> <<>>, source |-> "slack",
          credential |-> Undefined, list |-> <<>>, applied |-> "none"]

NoSource == [ref |-> 0, displayName |-> "", internalName |-> ""]

NoSelector == [existingSources |-> {}, selectedSources |-> <<>>, shown |-> <<>>,
               icons |-> <<>>, rendered |-> "no", prev |-> <<>>, clicked |-> NoSource]

\* the credentials the backend may hold already: each with a token of the page's source
InitCredLists(p) ==
  IF p = "bot" THEN {<<>>}
  ELSE {[i \in 1..n |-> [id |-> i, credential_json |-> TokenJson(p)]] :
          n \in 0..MaxInitCreds}

InitConfigLists(p) ==
  IF p = "bot" THEN {[i \in 1..n |-> i] : n \in 0..MaxConfigs} ELSE {<<>>}

Init ==
  /\ page \in Pages
  /\ mounted = TRUE
  /\ navigated = FALSE
  /\ srvCreds \in InitCredLists(page)
  /\ srvConns = <<>>
  /\ srvConfigs \in InitConfigLists(page)
  /\ srvAppCred \in (IF page = "google_drive" THEN BOOLEAN ELSE {FALSE})
  /\ nextCredId = Len(srvCreds) + 1
  /\ nextConnId = 1
  /\ swr = [k \in AllKeys |->
              IF k \in PageKeys(page) THEN [Unfetched EXCEPT !.loading = TRUE]
              ELSE Unfetched]
  /\ stale = {}
  /\ popup = NoPopup
  /\ timers = <<>>
  /\ procs = <<>>
  /\ last = NoHandler
  /\ sel = NoSel
  /\ tbl = NoTbl
  /\ selector = NoSelector

-----------------------------------------------------------------------------
(* The cache fetches, the clock, unmounting *)

\* the key is being fetched: SWR fetches on mount, revalidates on mutate(key)
\* and retries after an error
Fetching(k) ==
  mounted /\ k \in PageKeys(page) /\ (swr[k].loading \/ swr[k].error \/ k \in stale)

\* the GET of the key succeeds
FetchOk(k) ==
  /\ Fetching(k)
  /\ swr' = [swr EXCEPT ![k] = [has |-> TRUE, data |-> ServerSnapshot(k),
                                error |-> FALSE, loading |-> FALSE]]
  /\ stale' = stale \ {k}
  /\ last' = NoHandler
  /\ UNCHANGED <<page, mounted, navigated, srvVars, popup, timers, procs, sel, tbl, selector>>

\* it fails: the error is set and the data fetched before is kept
FetchFail(k) ==
  /\ Fetching(k)
  /\ swr' = [swr EXCEPT ![k].error = TRUE, ![k].loading = FALSE]
  /\ stale' = stale \ {k}
  /\ last' = NoHandler
  /\ UNCHANGED <<page, mounted, navigated, srvVars, popup, timers, procs, sel, tbl, selector>>

\* time passes, up to the moment the oldest timeout is due
Tick ==
  /\ timers /= <<>>
  /\ timers[1] < PopupTimeoutMs
  /\ LET d == Min(TickMs, PopupTimeoutMs - timers[1])
     IN timers' = [i \in 1..Len(timers) |-> timers[i] + d]
  /\ last' = NoHandler
  /\ UNCHANGED <<page, mounted, navigated, srvVars, swr, stale, popup, procs, sel, tbl, selector>>

\* the callback of setTimeout: setPopup(null)
PopupTimeout ==
  /\ timers /= <<>>
  /\ timers[1] >= PopupTimeoutMs
  /\ timers' = Tail(timers)
  /\ popup' = NoPopup
  /\ last' = [NoHandler EXCEPT !.kind = "popupTimeout", !.pc = "returned", !.pop = popup]
  /\ UNCHANGED <<page, mounted, navigated, srvVars, swr, stale, procs, sel, tbl, selector>>

\* the user leaves the page: its state, the popup included, is discarded
Unmount ==
  /\ mounted
  /\ mounted' = FALSE
  /\ popup' = NoPopup
  /\ last' = NoHandler
  /\ UNCHANGED <<page, navigated, srvVars, swr, stale, timers, procs, sel, tbl, selector>>

-----------------------------------------------------------------------------
(* Handlers of the Notion and Slack pages *)

\* the handler finished: it is the callback that finished most recently
Finished(h, pc) == [h EXCEPT !.pc = pc]

Start(h) == /\ Len(procs) < MaxInFlight
            /\ procs' = Append(procs, h)

MustDeleteConnectors ==
  PopupSpec("error", "Must delete all connectors before deleting credentials", 0)

\* the same handler with a guard that never passes
NotionDeleteCredentialClick_AlwaysBlocked ==
  /\ page = "notion" /\ DeleteCredentialOffered
  /\ LET h == Capture("deleteCredential", 0)
     IN IF Len(SourceStatuses) >= 0
        THEN /\ usePopupSetPopup(MustDeleteConnectors)
             /\ last' = Finished([h EXCEPT !.pop = MustDeleteConnectors], "returned")
             /\ UNCHANGED procs
        ELSE /\ Start(Issue(h, "DELETE /credential", h.cred, "awaitDelete"))
             /\ last' = NoHandler
             /\ UNCHANGED <<popup, timers>>
  /\ UNCHANGED <<page, mounted, navigated, srvVars, swr, stale, sel, tbl, selector>>

\* Notion, the trash button beside the integration token: the guard, then
\* await deleteCredential(notionCredential.id)
NotionDeleteCredentialClick ==
  /\ page = "notion" /\ DeleteCredentialOffered
  /\ LET h == Capture("deleteCredential", 0)
     IN IF Len(SourceStatuses) > 0
        THEN /\ usePopupSetPopup(MustDeleteConnectors)
             /\ last' = Finished([h EXCEPT !.pop = MustDeleteConnectors], "returned")
             /\ UNCHANGED procs
        ELSE /\ Start(Issue(h, "DELETE /credential", h.cred, "awaitDelete"))
             /\ last' = NoHandler
             /\ UNCHANGED <<popup, timers>>
  /\ UNCHANGED <<page, mounted, navigated, srvVars, swr, stale, sel, tbl, selector>>

\* Slack, the trash button beside the bot token: await deleteCredential(slackCredential.id)
SlackDeleteCredentialClick ==
  /\ page = "slack" /\ DeleteCredentialOffered
  /\ LET h == Capture("deleteCredential", 0)
     IN Start(Issue(h, "DELETE /credential", h.cred, "awaitDelete"))
  /\ last' = NoHandler
  /\ UNCHANGED <<page, mounted, navigated, srvVars, swr, stale, popup, timers, sel, tbl, selector>>

\* deleteCredential resolved, whatever the response: mutate("/api/manage/credential")
DeleteCredentialResponse(i, st) ==
  /\ i \in 1..Len(procs) /\ procs[i].pc = "awaitDelete"
  /\ MayAnswer(procs[i], st)
  /\ IF Ok(st) THEN ServerDeleteCredential(procs[i].cred) ELSE ServerUnchanged
  /\ mutate({CredKey(page)})
  /\ last' = Finished([Answered(procs[i], st) EXCEPT !.mut = {CredKey(page)}], "returned")
  /\ procs' = RemoveAt(procs, i)
  /\ UNCHANGED <<page, mounted, navigated, swr, popup, timers, sel, tbl, selector>>

\* CredentialForm is submitted (the form validates that the token is not
\* empty, posts it, and is disabled while its POST is pending)
CredentialFormSubmit ==
  /\ CredentialFormOffered
  /\ \A j \in 1..Len(procs) : procs[j].pc /= "awaitCredential"
  /\ Start(Issue(Capture("createCredential", 0), "POST /credential", 0, "awaitCredential"))
  /\ last' = NoHandler
  /\ UNCHANGED <<page, mounted, navigated, srvVars, swr, stale, popup, timers, sel, tbl, selector>>

\* the keys onSubmit(isSuccess) of the page's CredentialForm revalidates
CredentialFormOnSubmit(p, isSuccess) ==
  IF ~isSuccess THEN {}
  ELSE IF p = "notion" THEN {CredKey(p), StatusKey(p)}
  ELSE {CredKey(p)}

CredentialFormResponse(i, st) ==
  /\ i \in 1..Len(procs) /\ procs[i].pc = "awaitCredential"
  /\ MayAnswer(procs[i], st)
  /\ IF Ok(st) THEN ServerCreateCredential(TokenJson(page)) ELSE ServerUnchanged
  /\ LET keys == CredentialFormOnSubmit(page, Ok(st))
     IN /\ mutate(keys)
        /\ last' = Finished([Answered(procs[i], st) EXCEPT !.mut = keys], "returned")
  /\ procs' = RemoveAt(procs, i)
  /\ UNCHANGED <<page, mounted, navigated, swr, popup, timers, sel, tbl, selector>>

\* ConnectorsTable calls onCredentialLink(connectorId) for one of its rows:
\*   if (credential) { await linkCredential(connectorId, credential.id); mutate(...) }
OnCredentialLink(connectorId) ==
  /\ ConnectorsTableOffered
  /\ \E i \in 1..Len(SourceStatuses) : SourceStatuses[i].connector.id = connectorId
  /\ LET h == Capture("onCredentialLink", connectorId)
     IN IF SourceCredential /= Undefined
        THEN /\ Start(Issue(h, "PUT /connector/credential", connectorId, "awaitTableLink"))
             /\ last' = NoHandler
        ELSE /\ last' = Finished(h, "returned")
             /\ UNCHANGED procs
  /\ UNCHANGED <<page, mounted, navigated, srvVars, swr, stale, popup, timers, sel, tbl, selector>>

\* linkCredential resolved, whatever the response: mutate(indexing-status)
TableLinkResponse(i, st) ==
  /\ i \in 1..Len(procs) /\ procs[i].pc = "awaitTableLink"
  /\ MayAnswer(procs[i], st)
  /\ IF Ok(st) THEN ServerLink(procs[i].conn, procs[i].cred) ELSE ServerUnchanged
  /\ mutate({StatusKey(page)})
  /\ last' = Finished([Answered(procs[i], st) EXCEPT !.mut = {StatusKey(page)}], "returned")
  /\ procs' = RemoveAt(procs, i)
  /\ UNCHANGED <<page, mounted, navigated, swr, popup, timers, sel, tbl, selector>>

\* ConnectorForm is submitted (the form posts the connector and is disabled
\* while its POST is pending)
ConnectorFormSubmit ==
  /\ ConnectorFormOffered
  /\ \A j \in 1..Len(procs) : procs[j].pc /= "awaitConnector"
  /\ Start(Issue(Capture("createConnector", 0), "POST /connector", 0, "awaitConnector"))
  /\ last' = NoHandler
  /\ UNCHANGED <<page, mounted, navigated, srvVars, swr, stale, popup, timers, sel, tbl, selector>>

\* onSubmit(isSuccess, responseJson) of the page's ConnectorForm:
\*   if (isSuccess && responseJson) {
\*     await linkCredential(responseJson.id, <source>Credential.id); mutate(...) }
\* Reading .id of an undefined credential throws a TypeError.
ConnectorFormResponse(i, st) ==
  /\ i \in 1..Len(procs) /\ procs[i].pc = "awaitConnector"
  /\ MayAnswer(procs[i], st)
  /\ LET h == Answered(procs[i], st)
     IN IF ~Ok(st)
        THEN /\ ServerUnchanged
             /\ last' = Finished(h, "returned")
             /\ procs' = RemoveAt(procs, i)
        ELSE /\ ServerCreateConnector(page)
             /\ IF h.cred = 0
                THEN /\ last' = Finished([h EXCEPT !.conn = nextConnId], "threw")
                     /\ procs' = RemoveAt(procs, i)
                ELSE /\ procs' = [procs EXCEPT ![i] =
                          Issue([h EXCEPT !.conn = nextConnId],
                                "PUT /connector/credential", nextConnId, "awaitFormLink")]
                     /\ last' = NoHandler
  /\ UNCHANGED <<page, mounted, navigated, swr, stale, popup, timers, sel, tbl, selector>>

\* linkCredential resolved, whatever the response: mutate(indexing-status)
ConnectorFormLinkResponse(i, st) ==
  /\ i \in 1..Len(procs) /\ procs[i].pc = "awaitFormLink"
  /\ MayAnswer(procs[i], st)
  /\ IF Ok(st) THEN ServerLink(procs[i].conn, procs[i].cred) ELSE ServerUnchanged
  /\ mutate({StatusKey(page)})
  /\ last' = Finished([Answered(procs[i], st) EXCEPT !.mut = {StatusKey(page)}], "returned")
  /\ procs' = RemoveAt(procs, i)
  /\ UNCHANGED <<page, mounted, navigated, swr, popup, timers, sel, tbl, selector>>

-----------------------------------------------------------------------------
(* Handlers of the Google Drive page *)

UploadPopup(st) ==
  IF Ok(st) THEN PopupSpec("success", "Successfully uploaded app credentials", 0)
  ELSE PopupSpec("error", "Failed to upload app credentials - ", st)

\* AppCredentialUpload, the Upload button (enabled once a file was read)
UploadClick ==
  /\ CanClick /\ page = "google_drive"
  /\ Start(Issue(Capture("upload", 0), "PUT /app-credential", 0, "awaitUpload"))
  /\ last' = NoHandler
  /\ UNCHANGED <<page, mounted, navigated, srvVars, swr, stale, popup, timers, sel, tbl, selector>>

\* the response of the PUT: setPopup(...) of AppCredentialUpload is the page's
\*   (popup) => { mutate(app-credential); setPopupWithExpiration(popup) }
UploadResponse(i, st) ==
  /\ i \in 1..Len(procs) /\ procs[i].pc = "awaitUpload"
  /\ MayAnswer(procs[i], st)
  /\ IF Ok(st) THEN ServerUpload ELSE ServerUnchanged
  /\ mutate({AppCredKey})
  /\ setPopupWithExpiration(UploadPopup(st))
  /\ last' = Finished([Answered(procs[i], st) EXCEPT !.mut = {AppCredKey},
                                                    !.pop = UploadPopup(st)], "returned")
  /\ procs' = RemoveAt(procs, i)
  /\ UNCHANGED <<page, mounted, navigated, swr, sel, tbl, selector>>

\* the button Authenticate with Google Drive: POST /api/admin/credential
AuthenticateClick ==
  /\ CanClick /\ page = "google_drive"
  /\ Start(Issue(Capture("authenticate", 0), "POST /credential", 0, "awaitAuthCredential"))
  /\ last' = NoHandler
  /\ UNCHANGED <<page, mounted, navigated, srvVars, swr, stale, popup, timers, sel, tbl, selector>>

FailedToCreateCredential(st) == PopupSpec("error", "Failed to create credential - ", st)

\* the response of the POST: an error popup, or the GET of the authorization url
AuthCredentialResponse(i, st) ==
  /\ i \in 1..Len(procs) /\ procs[i].pc = "awaitAuthCredential"
  /\ MayAnswer(procs[i], st)
  /\ LET h == Answered(procs[i], st)
     IN IF ~Ok(st)
        THEN /\ ServerUnchanged
             /\ setPopupWithExpiration(FailedToCreateCredential(st))
             /\ last' = Finished([h EXCEPT !.pop = FailedToCreateCredential(st)], "returned")
             /\ procs' = RemoveAt(procs, i)
        ELSE /\ ServerCreateCredential(EmptyJson)
             /\ procs' = [procs EXCEPT ![i] =
                            Issue(h, "GET /authorize", nextCredId, "awaitAuthorize")]
             /\ last' = NoHandler
             /\ UNCHANGED <<popup, timers>>
  /\ UNCHANGED <<page, mounted, navigated, swr, stale, sel, tbl, selector>>

\* the same callback without the test of authorizationUrlResponse.ok
AuthorizeResponse_AlwaysNavigate(i, st) ==
  /\ i \in 1..Len(procs) /\ procs[i].pc = "awaitAuthorize"
  /\ MayAnswer(procs[i], st)
  /\ navigated' = TRUE
  /\ mounted' = FALSE
  /\ popup' = NoPopup
  /\ last' = Finished(Answered(procs[i], st), "navigated")
  /\ procs' = RemoveAt(procs, i)
  /\ UNCHANGED <<page, srvVars, swr, stale, timers, sel, tbl, selector>>

\* the response of the GET: an error popup, or router.push(auth_url), which
\* leaves the page
AuthorizeResponse(i, st) ==
  /\ i \in 1..Len(procs) /\ procs[i].pc = "awaitAuthorize"
  /\ MayAnswer(procs[i], st)
  /\ LET h == Answered(procs[i], st)
     IN IF ~Ok(st)
        THEN /\ setPopupWithExpiration(FailedToCreateCredential(st))
             /\ last' = Finished([h EXCEPT !.pop = FailedToCreateCredential(st)], "returned")
             /\ UNCHANGED <<mounted, navigated>>
        ELSE /\ navigated' = TRUE
             /\ mounted' = FALSE
             /\ popup' = NoPopup
             /\ last' = Finished(h, "navigated")
             /\ UNCHANGED timers
  /\ procs' = RemoveAt(procs, i)
  /\ UNCHANGED <<page, srvVars, swr, stale, sel, tbl, selector>>

\* the same handler behind a guard that refuses a connector with credentials
DeleteConnectorClick_Guarded ==
  /\ DeleteConnectorOffered
  /\ LET id == SourceStatuses[1].connector.id
         h == Capture("deleteConnector", id)
     IN IF SourceStatuses[1].connector.credential_ids /= {}
        THEN /\ last' = Finished(h, "returned")
             /\ UNCHANGED procs
        ELSE /\ Start(Issue(h, "DELETE /connector", id, "awaitDeleteConnector"))
             /\ last' = NoHandler
  /\ UNCHANGED <<page, mounted, navigated, srvVars, swr, stale, popup, timers, sel, tbl, selector>>

\* the button Delete Connector:
\*   deleteConnector(status.connector.id).then(() => { popup; mutate(...) })
DeleteConnectorClick ==
  /\ DeleteConnectorOffered
  /\ LET id == SourceStatuses[1].connector.id
     IN Start(Issue(Capture("deleteConnector", id), "DELETE /connector", id,
                    "awaitDeleteConnector"))
  /\ last' = NoHandler
  /\ UNCHANGED <<page, mounted, navigated, srvVars, swr, stale, popup, timers, sel, tbl, selector>>

ConnectorDeleted == PopupSpec("success", "Successfully deleted connector!", 0)

\* deleteConnector resolved, whatever the response
DeleteConnectorResponse(i, st) ==
  /\ i \in 1..Len(procs) /\ procs[i].pc = "awaitDeleteConnector"
  /\ MayAnswer(procs[i], st)
  /\ IF Ok(st) THEN ServerDeleteConnector(procs[i].conn) ELSE ServerUnchanged
  /\ setPopupWithExpiration(ConnectorDeleted)
  /\ mutate({StatusKey(page)})
  /\ last' = Finished([Answered(procs[i], st) EXCEPT !.mut = {StatusKey(page)},
                                                    !.pop = ConnectorDeleted], "returned")
  /\ procs' = RemoveAt(procs, i)
  /\ UNCHANGED <<page, mounted, navigated, swr, sel, tbl, selector>>

\* the button Add: POST /api/admin/connector
AddClick ==
  /\ AddOffered
  /\ Start(Issue(Capture("add", 0), "POST /connector", 0, "awaitAddConnector"))
  /\ last' = NoHandler
  /\ UNCHANGED <<page, mounted, navigated, srvVars, swr, stale, popup, timers, sel, tbl, selector>>

FailedToCreateConnector(st) == PopupSpec("error", "Failed to create connector - ", st)
FailedToLink(st) == PopupSpec("error", "Failed to link connector to credential - ", st)
ConnectorCreated == PopupSpec("success", "Successfully created connector!", 0)

\* the response of the POST: an error popup, or the PUT that links the new
\* connector to googleDriveCredential.id (a TypeError when it is undefined)
AddConnectorResponse(i, st) ==
  /\ i \in 1..Len(procs) /\ procs[i].pc = "awaitAddConnector"
  /\ MayAnswer(procs[i], st)
  /\ LET h == Answered(procs[i], st)
     IN IF ~Ok(st)
        THEN /\ ServerUnchanged
             /\ setPopupWithExpiration(FailedToCreateConnector(st))
             /\ last' = Finished([h EXCEPT !.pop = FailedToCreateConnector(st)], "returned")
             /\ procs' = RemoveAt(procs, i)
        ELSE /\ ServerCreateConnector("google_drive")
             /\ UNCHANGED <<popup, timers>>
             /\ IF h.cred = 0
                THEN /\ last' = Finished([h EXCEPT !.conn = nextConnId], "threw")
                     /\ procs' = RemoveAt(procs, i)
                ELSE /\ procs' = [procs EXCEPT ![i] =
                          Issue([h EXCEPT !.conn = nextConnId],
                                "PUT /connector/credential", nextConnId, "awaitAddLink")]
                     /\ last' = NoHandler
  /\ UNCHANGED <<page, mounted, navigated, swr, stale, sel, tbl, selector>>

\* the same without the mutate after the success popup
AddLinkResponse_NoMutate(i, st) ==
  /\ i \in 1..Len(procs) /\ procs[i].pc = "awaitAddLink"
  /\ MayAnswer(procs[i], st)
  /\ LET h == Answered(procs[i], st)
     IN IF ~Ok(st)
        THEN /\ ServerUnchanged
             /\ setPopupWithExpiration(FailedToLink(st))
             /\ last' = Finished([h EXCEPT !.pop = FailedToLink(st)], "returned")
        ELSE /\ ServerLink(h.conn, h.cred)
             /\ setPopupWithExpiration(ConnectorCreated)
             /\ last' = Finished([h EXCEPT !.pop = ConnectorCreated], "returned")
  /\ procs' = RemoveAt(procs, i)
  /\ UNCHANGED <<page, mounted, navigated, swr, stale, sel, tbl, selector>>

\* the response of the PUT: an error popup, or the success popup and mutate(...)
AddLinkResponse(i, st) ==
  /\ i \in 1..Len(procs) /\ procs[i].pc = "awaitAddLink"
  /\ MayAnswer(procs[i], st)
  /\ LET h == Answered(procs[i], st)
     IN IF ~Ok(st)
        THEN /\ ServerUnchanged
             /\ setPopupWithExpiration(FailedToLink(st))
             /\ last' = Finished([h EXCEPT !.pop = FailedToLink(st)], "returned")
             /\ UNCHANGED stale
        ELSE /\ ServerLink(h.conn, h.cred)
             /\ setPopupWithExpiration(ConnectorCreated)
             /\ mutate({StatusKey(page)})
             /\ last' = Finished([h EXCEPT !.pop = ConnectorCreated,
                                           !.mut = {StatusKey(page)}], "returned")
  /\ procs' = RemoveAt(procs, i)
  /\ UNCHANGED <<page, mounted, navigated, swr, sel, tbl, selector>>

-----------------------------------------------------------------------------
(* The delete handler of the Slack bot configuration table *)

BotConfigDeleted == PopupSpec("success", "Slack bot config deleted", 0)

\* the message embeds the body of the response, response.text(), not its status
FailedToDeleteBotConfig == PopupSpec("error", "Failed to delete Slack bot config - ", 0)

\* the trash icon of a row: await deleteSlackBotConfig(slackBotConfig.id)
BotDeleteClick(id) ==
  /\ CanClick /\ page = "bot"
  /\ id \in Range(swr[BotConfigsKey].data)
  /\ Start(Issue(Capture("deleteBotConfig", id), "DELETE /bot-config", id, "awaitBotDelete"))
  /\ last' = NoHandler
  /\ UNCHANGED <<page, mounted, navigated, srvVars, swr, stale, popup, timers, sel, tbl, selector>>

\* the same callback issuing the DELETE again when it was refused
BotDeleteResponse_Retry(i, st) ==
  /\ i \in 1..Len(procs) /\ procs[i].pc = "awaitBotDelete"
  /\ MayAnswer(procs[i], st)
  /\ LET h == Answered(procs[i], st)
     IN IF Ok(st)
        THEN /\ ServerDeleteBotConfig(h.conn)
             /\ usePopupSetPopup(BotConfigDeleted)
             /\ mutate({BotConfigsKey})
             /\ last' = Finished([h EXCEPT !.pop = BotConfigDeleted,
                                           !.mut = {BotConfigsKey}], "returned")
             /\ procs' = RemoveAt(procs, i)
        ELSE /\ ServerUnchanged
             /\ procs' = [procs EXCEPT ![i] =
                            Issue(h, "DELETE /bot-config", h.conn, "awaitBotDelete")]
             /\ last' = NoHandler
             /\ UNCHANGED <<popup, timers, stale>>
  /\ UNCHANGED <<page, mounted, navigated, swr, sel, tbl, selector>>

\* the response: the success popup and refresh(), or await response.text()
BotDeleteResponse(i, st) ==
  /\ i \in 1..Len(procs) /\ procs[i].pc = "awaitBotDelete"
  /\ MayAnswer(procs[i], st)
  /\ LET h == Answered(procs[i], st)
     IN IF Ok(st)
        THEN /\ ServerDeleteBotConfig(h.conn)
             /\ usePopupSetPopup(BotConfigDeleted)
             /\ mutate({BotConfigsKey})
             /\ last' = Finished([h EXCEPT !.pop = BotConfigDeleted,
                                           !.mut = {BotConfigsKey}], "returned")
             /\ procs' = RemoveAt(procs, i)
        ELSE /\ ServerUnchanged
             /\ procs' = [procs EXCEPT ![i] = [h EXCEPT !.pc = "awaitText"]]
             /\ last' = NoHandler
             /\ UNCHANGED <<popup, timers, stale>>
  /\ UNCHANGED <<page, mounted, navigated, swr, sel, tbl, selector>>

\* the body was read: the error popup, then refresh()
BotDeleteFailed(i) ==
  /\ i \in 1..Len(procs) /\ procs[i].pc = "awaitText"
  /\ usePopupSetPopup(FailedToDeleteBotConfig)
  /\ mutate({BotConfigsKey})
  /\ last' = Finished([procs[i] EXCEPT !.pop = FailedToDeleteBotConfig,
                                       !.mut = {BotConfigsKey}], "returned")
  /\ procs' = RemoveAt(procs, i)
  /\ UNCHANGED <<page, mounted, navigated, srvVars, swr, sel, tbl, selector>>

-----------------------------------------------------------------------------
(* The specification of a page visit *)

Slots == 1..MaxInFlight

\* what happens on every page: fetches, time, popup timeouts, leaving
NextShared ==
  \/ \E k \in AllKeys : FetchOk(k)
  \/ \E k \in AllKeys : FetchFail(k)
  \/ Tick
  \/ PopupTimeout
  \/ Unmount

NextNotionSlack ==
  \/ NotionDeleteCredentialClick
  \/ SlackDeleteCredentialClick
  \/ \E i \in Slots, st \in Statuses : DeleteCredentialResponse(i, st)
  \/ CredentialFormSubmit
  \/ \E i \in Slots, st \in Statuses : CredentialFormResponse(i, st)
  \/ \E c \in 1..MaxConnId : OnCredentialLink(c)
  \/ \E i \in Slots, st \in Statuses : TableLinkResponse(i, st)
  \/ ConnectorFormSubmit
  \/ \E i \in Slots, st \in Statuses : ConnectorFormResponse(i, st)
  \/ \E i \in Slots, st \in Statuses : ConnectorFormLinkResponse(i, st)

NextGoogleDrive ==
  \/ UploadClick
  \/ \E i \in Slots, st \in Statuses : UploadResponse(i, st)
  \/ AuthenticateClick
  \/ \E i \in Slots, st \in Statuses : AuthCredentialResponse(i, st)
  \/ \E i \in Slots, st \in Statuses : AuthorizeResponse(i, st)
  \/ DeleteConnectorClick
  \/ \E i \in Slots, st \in Statuses : DeleteConnectorResponse(i, st)
  \/ AddClick
  \/ \E i \in Slots, st \in Statuses : AddConnectorResponse(i, st)
  \/ \E i \in Slots, st \in Statuses : AddLinkResponse(i, st)

NextBot ==
  \/ \E c \in 1..MaxConfigs : BotDeleteClick(c)
  \/ \E i \in Slots, st \in Statuses : BotDeleteResponse(i, st)
  \/ \E i \in Slots : BotDeleteFailed(i)

Next == NextShared \/ NextNotionSlack \/ NextGoogleDrive \/ NextBot

Spec == Init /\ [][Next]_vars

\* A visit of the Google Drive page in which time passes and due timeouts run:
\* the browser runs the callback of setTimeout once its delay has elapsed.
InitGoogleDrive == Init /\ page = "google_drive"

FairSpec ==
  /\ InitGoogleDrive
  /\ [][NextShared \/ NextGoogleDrive]_vars
  /\ WF_vars(Tick)
  /\ WF_vars(PopupTimeout)

-----------------------------------------------------------------------------
(* The two selection filters applied to arbitrary fetched collections *)

\* what credential_json may hold under the three marker keys
Jsons == [MarkerKeys -> JsonVals]

\* the ids of a fetched collection are distinct and come in any order
IdOrders(n) == {f \in [1..n -> 1..n] : \A i, j \in 1..n : f[i] = f[j] => i = j}

\* a fetched collection of n credentials
CredCollection(n, ids, js) ==
  [i \in 1..n |-> [id |-> ids[i], credential_json |-> js[i]]]

\* the sources a fetched connector may have: those of the pages, and others
OtherSource == "web"

\* a fetched collection of n connector indexing statuses
StatusCollection(n, ids, srcs, cids) ==
  [i \in 1..n |-> [connector |-> [id |-> ids[i], source |-> srcs[i],
                                  credential_ids |-> cids[i]]]]

InitSelect ==
  /\ page = "slack"
  /\ mounted = FALSE
  /\ navigated = FALSE
  /\ srvCreds = <<>>
  /\ srvConns = <<>>
  /\ srvConfigs = <<>>
  /\ srvAppCred = FALSE
  /\ nextCredId = 1
  /\ nextConnId = 1
  /\ swr = [k \in AllKeys |-> Unfetched]
  /\ stale = {}
  /\ popup = NoPopup
  /\ timers = <<>>
  /\ procs = <<>>
  /\ last = NoHandler
  /\ tbl = NoTbl
  /\ selector = NoSelector
  /\ \E n \in 0..MaxSelLen :
       \E ids \in IdOrders(n) :
         \/ \E js \in [1..n -> Jsons] :
              sel = [NoSel EXCEPT !.creds = CredCollection(n, ids, js)]
         \/ \E srcs \in [1..n -> Sources \cup {OtherSource}], cids \in [1..n -> {{}, {1}}] :
              sel = [NoSel EXCEPT !.statuses = StatusCollection(n, ids, srcs, cids)]

\* a render of the page of source S computes <source>Credential from credentialsData
ApplySelectCredential(S) ==
  /\ sel.applied = "none" /\ sel.statuses = <<>>
  /\ sel' = [sel EXCEPT !.source = S,
                        !.credential = SelectCredentialForSource(sel.creds, S),
                        !.applied = "credential"]
  /\ UNCHANGED <<page, mounted, navigated, srvVars, swr, stale, popup, timers, procs, last, tbl, selector>>

\* and <source>ConnectorIndexingStatuses from connectorIndexingStatuses
ApplySelectConnectors(S) ==
  /\ sel.applied = "none" /\ sel.creds = <<>>
  /\ sel' = [sel EXCEPT !.source = S,
                        !.list = SelectConnectorsForSource(sel.statuses, S),
                        !.applied = "connectors"]
  /\ UNCHANGED <<page, mounted, navigated, srvVars, swr, stale, popup, timers, procs, last, tbl, selector>>

NextSelect ==
  \/ \E S \in Sources : ApplySelectCredential(S)
  \/ \E S \in Sources : ApplySelectConnectors(S)

SelectSpec == InitSelect /\ [][NextSelect]_vars

-----------------------------------------------------------------------------
(* SlackBotConfigsTable: the sort and the pagination of the bot configs *)

\* the compare function passed to sort
CompareById(a, b) == IF a.id < b.id THEN -1 ELSE IF a.id > b.id THEN 1 ELSE 0

\* the place a stable sort gives the i-th element: after the elements that
\* compare less, and after the earlier elements that compare equal
SortedPlace(s, i) ==
  1 + Cardinality({j \in 1..Len(s) :
                     \/ CompareById(s[j], s[i]) < 0
                     \/ CompareById(s[j], s[i]) = 0 /\ j < i})

\* the elements of s, each at its place
Placed(s, place) == [k \in 1..Len(s) |-> s[CHOOSE i \in 1..Len(s) : place[i] = k]]

\* the sort without effect
SortById_Unsorted(s) == s

\* slackBotConfigs.sort(compare): Array.prototype.sort is stable (ECMAScript 2019)
SortById(s) == Placed(s, <<>> \o [i \in 1..Len(s) |-> SortedPlace(s, i)])

\* Array.prototype.slice(start, end) for start, end >= 0: offsets count from 0
Slice(s, start, end) == SubSeq(s, Min(start, Len(s)) + 1, Min(end, Len(s)))

\* the slice that takes the page for an offset counted from 0
PageRows_FromPage(configs, p) == Slice(configs, p * numToDisplay, (p + 1) * numToDisplay)

\* slackBotConfigs.slice((page - 1) * numToDisplay, page * numToDisplay)
PageRows(configs, p) == Slice(configs, (p - 1) * numToDisplay, p * numToDisplay)

\* Math.ceil(slackBotConfigs.length / numToDisplay)
TotalPages(configs) ==
  IF Len(configs) % numToDisplay = 0 THEN Len(configs) \div numToDisplay
  ELSE Len(configs) \div numToDisplay + 1

\* one render of the table: the prop is sorted in place, then sliced
Render(t) ==
  LET sorted == SortById(t.configs)
  IN [t EXCEPT !.configs = sorted,
               !.rows = PageRows(sorted, t.page),
               !.totalPages = TotalPages(sorted),
               !.rendered = TRUE]

\* a list of n bot configs; channel_config stands for what a config holds besides its id
ConfigList(n, ids) == [i \in 1..n |-> [id |-> ids[i], channel_config |-> i]]

InitTable ==
  /\ page = "bot"
  /\ mounted = TRUE
  /\ navigated = FALSE
  /\ srvCreds = <<>>
  /\ srvConns = <<>>
  /\ srvConfigs = <<>>
  /\ srvAppCred = FALSE
  /\ nextCredId = 1
  /\ nextConnId = 1
  /\ swr = [k \in AllKeys |-> Unfetched]
  /\ stale = {}
  /\ popup = NoPopup
  /\ timers = <<>>
  /\ procs = <<>>
  /\ last = NoHandler
  /\ sel = NoSel
  /\ \E L \in {ConfigList(n, [i \in 1..n |-> i]) : n \in 0..MaxRows}
             \cup {ConfigList(n, [i \in 1..n |-> n + 1 - i]) : n \in 0..MaxRows}
             \cup UNION {{ConfigList(n, ids) : ids \in [1..n -> 1..MaxSortLen]} :
                           n \in 0..MaxSortLen} :
       tbl = [NoTbl EXCEPT !.input = L, !.configs = L]
  /\ selector = NoSelector

\* the table is rendered with the fetched configs
RenderTable ==
  /\ ~tbl.rendered
  /\ tbl' = Render(tbl)
  /\ UNCHANGED <<page, mounted, navigated, srvVars, swr, stale, popup, timers, procs,
                 last, sel, selector>>

\* PageSelector calls onPageChange(newPage) for one of its totalPages pages:
\* setPage(newPage), and the table renders again
OnPageChange(newPage) ==
  /\ tbl.rendered
  /\ newPage \in 1..tbl.totalPages /\ newPage /= tbl.page
  /\ tbl' = Render([tbl EXCEPT !.page = newPage])
  /\ UNCHANGED <<page, mounted, navigated, srvVars, swr, stale, popup, timers, procs,
                 last, sel, selector>>

\* the trash icon of a shown row, its DELETE answered ok, then refresh(): the
\* configs are fetched again without the row and the table, which stayed
\* mounted with its page state, renders them
DeleteShownConfig(k) ==
  /\ tbl.rendered
  /\ tbl.deleted < MaxDeletes
  /\ k \in {1, Len(tbl.rows)} /\ k \in 1..Len(tbl.rows)
  /\ LET fetched == SelectSeq(tbl.input, LAMBDA c : c /= tbl.rows[k])
     IN tbl' = Render([tbl EXCEPT !.input = fetched, !.configs = fetched,
                                  !.deleted = @ + 1])
  /\ UNCHANGED <<page, mounted, navigated, srvVars, swr, stale, popup, timers, procs,
                 last, sel, selector>>

MaxPages == TotalPages([i \in 1..MaxRows |-> i])

NextTable ==
  \/ RenderTable
  \/ \E newPage \in 1..MaxPages : OnPageChange(newPage)
  \/ \E k \in 1..numToDisplay : DeleteShownConfig(k)

TableSpec == InitTable /\ [][NextTable]_vars

-----------------------------------------------------------------------------
(* A visit of the Google Drive page on a server that already has connectors *)

\* connectors created before the visit, of this source and of another one,
\* each linked to some of the credentials there are
InitConnLists(credIds) ==
  UNION {[1..n -> [source : {"google_drive", OtherSource},
                   credential_ids : SUBSET credIds]] : n \in 0..MaxInitConns}

InitStatusRow ==
  /\ page = "google_drive"
  /\ mounted = TRUE
  /\ navigated = FALSE
  /\ srvCreds \in InitCredLists(page)
  /\ \E cs \in InitConnLists({srvCreds[i].id : i \in 1..Len(srvCreds)}) :
       srvConns = [i \in 1..Len(cs) |->
                     [id |-> i, source |-> cs[i].source,
                      credential_ids |-> cs[i].credential_ids]]
  /\ srvConfigs = <<>>
  /\ srvAppCred \in BOOLEAN
  /\ nextCredId = Len(srvCreds) + 1
  /\ nextConnId = Len(srvConns) + 1
  /\ swr = [k \in AllKeys |->
              IF k \in PageKeys(page) THEN [Unfetched EXCEPT !.loading = TRUE]
              ELSE Unfetched]
  /\ stale = {}
  /\ popup = NoPopup
  /\ timers = <<>>
  /\ procs = <<>>
  /\ last = NoHandler
  /\ sel = NoSel
  /\ tbl = NoTbl
  /\ selector = NoSelector

\* the handlers of the page that change the connectors
NextStatusRow ==
  \/ DeleteConnectorClick
  \/ \E i \in Slots, st \in Statuses : DeleteConnectorResponse(i, st)
  \/ AddClick
  \/ \E i \in Slots, st \in Statuses : AddConnectorResponse(i, st)
  \/ \E i \in Slots, st \in Statuses : AddLinkResponse(i, st)

StatusRowSpec == InitStatusRow /\ [][NextShared \/ NextStatusRow]_vars

-----------------------------------------------------------------------------
(* The source filter of the sidebar *)

\* the module constant sources; ref stands for the identity of each object
sources ==
  <<[ref |-> 1, displayName |-> "Google Drive", internalName |-> "google_drive"],
    [ref |-> 2, displayName |-> "Slack", internalName |-> "slack"],
    [ref |-> 3, displayName |-> "Confluence", internalName |-> "confluence"],
    [ref |-> 4, displayName |-> "Github PRs", internalName |-> "github"],
    [ref |-> 5, displayName |-> "Web", internalName |-> "web"]>>

\* the source types existingSources may name
ValidSources == {sources[i].internalName : i \in 1..Len(sources)} \cup {"notion"}

Thrown == "Error: Invalid source type"

\* getSourceMetadata(sourceType).icon, or what the default case throws
getSourceMetadataIcon(sourceType) ==
  CASE sourceType = "web" -> "GlobeIcon"
    [] sourceType = "slack" -> "SlackIcon"
    [] sourceType = "google_drive" -> "GoogleDriveIcon"
    [] sourceType = "github" -> "GithubIcon"
    [] OTHER -> Thrown

getSourceIcon(sourceType) == getSourceMetadataIcon(sourceType)

\* Array.prototype.includes on objects: the same object
Includes(list, source) == \E k \in 1..Len(list) : list[k].ref = source.ref

\* a handler that always appends
handleSelect_Append(prev, source) == Append(prev, source)

\* the updater handleSelect passes to setSelectedSources
handleSelect(prev, source) ==
  IF Includes(prev, source)
  THEN SelectSeq(prev, LAMBDA s : s.internalName /= source.internalName)
  ELSE Append(prev, source)

\* the render of SourceSelector: the sources that exist, each with its icon;
\* an icon that throws makes the render throw
RenderSelector(b) ==
  LET shown == SelectSeq(sources, LAMBDA src : src.internalName \in b.existingSources)
      icons == [k \in 1..Len(shown) |-> getSourceIcon(shown[k].internalName)]
  IN [b EXCEPT !.shown = shown, !.icons = icons,
               !.rendered = IF \E k \in 1..Len(icons) : icons[k] = Thrown
                            THEN "threw" ELSE "yes"]

InitSelector ==
  /\ page = "bot"
  /\ mounted = TRUE
  /\ navigated = FALSE
  /\ srvCreds = <<>>
  /\ srvConns = <<>>
  /\ srvConfigs = <<>>
  /\ srvAppCred = FALSE
  /\ nextCredId = 1
  /\ nextConnId = 1
  /\ swr = [k \in AllKeys |-> Unfetched]
  /\ stale = {}
  /\ popup = NoPopup
  /\ timers = <<>>
  /\ procs = <<>>
  /\ last = NoHandler
  /\ sel = NoSel
  /\ tbl = NoTbl
  /\ \E E \in SUBSET ValidSources : selector = [NoSelector EXCEPT !.existingSources = E]

\* the first render of the component
RenderSourceSelector ==
  /\ selector.rendered = "no"
  /\ selector' = RenderSelector(selector)
  /\ UNCHANGED <<page, mounted, navigated, srvVars, swr, stale, popup, timers, procs,
                 last, sel, tbl>>

\* onClick of the k-th source shown: handleSelect(source), and the render
\* that follows the state update
SelectSource(k) ==
  /\ selector.rendered = "yes"
  /\ k \in 1..Len(selector.shown)
  /\ selector' = RenderSelector(
                   [selector EXCEPT
                      !.selectedSources = handleSelect(@, selector.shown[k]),
                      !.prev = selector.selectedSources,
                      !.clicked = selector.shown[k]])
  /\ UNCHANGED <<page, mounted, navigated, srvVars, swr, stale, popup, timers, procs,
                 last, sel, tbl>>

NextSelector ==
  \/ RenderSourceSelector
  \/ \E k \in 1..Len(sources) : SelectSource(k)

SelectorSpec == InitSelector /\ [][NextSelector]_vars

-----------------------------------------------------------------------------
(* The delete guard *)

\* the handlers the properties speak of: those suspended at an await, and the
\* one that finished in the step just taken
Handlers == Range(procs) \cup {last}

\* the handler issued the DELETE of its credential, and nothing else
OneDeleteCall(h) ==
  /\ Len(h.calls) = 1
  /\ h.calls[1].op = "DELETE /credential"
  /\ h.calls[1].id = h.cred

\* C1: on the Notion and the Slack page, a click on the delete button of the
\* selected credential, made while some status of the fetched snapshot lists
\* the credential's id in connector.credential_ids, issues no network call
\* (no DELETE of the credential, nor any other), revalidates nothing and ends
\* with an error popup.
C1_LinkedDeleteIssuesNoCall ==
  \A h \in Handlers :
    (h.kind = "deleteCredential" /\ h.linked) =>
      /\ h.calls = <<>>
      /\ h.mut = {}
      /\ h.pc = "returned" /\ h.pop.type = "error"

-----------------------------------------------------------------------------
(* The three-step workflow: create credential, create connector, link *)

\* C3: on the Slack, the Notion and the Google Drive page, while no credential
\* of the page's source is selected, the main view offers no way to create a
\* connector: neither ConnectorForm nor the Add button.
C3_NoCreationOfferedWithoutCredential ==
  (CanClick /\ page \in Sources /\ SourceCredential = Undefined) =>
    (~ConnectorFormOffered /\ ~AddOffered)

WorkflowOps == {"POST /credential", "POST /connector", "PUT /connector/credential"}

\* the handler waits for the response to a call of the workflow
PendingStep(h) ==
  /\ h.calls /= <<>>
  /\ h.calls[Len(h.calls)].status = 0
  /\ h.calls[Len(h.calls)].op \in WorkflowOps

\* C4: the steps of the workflow are issued in order. A create-connector call
\* is issued only by a handler whose render had a credential of the source
\* (its creation has completed); a link call that follows a create-connector
\* call follows its success; and no two calls of the workflow are in flight
\* at the same time.
C4_StepsInOrder ==
  /\ \A h \in Handlers :
       \A k \in 1..Len(h.calls) :
         /\ h.calls[k].op = "POST /connector" => h.cred /= 0
         /\ (h.calls[k].op = "PUT /connector/credential" /\ k > 1) =>
              (h.calls[k - 1].op = "POST /connector" /\ Ok(h.calls[k - 1].status))
  /\ \A i, j \in 1..Len(procs) :
       (PendingStep(procs[i]) /\ PendingStep(procs[j])) => i = j

\* C5: no call site of the link reads the id of an absent credential: no
\* handler ends in the TypeError of reading undefined.id, and every handler
\* that issued the link had a selected credential.
C5_LinkOnlyWithCredential ==
  \A h \in Handlers :
    /\ h.pc /= "threw"
    /\ (\E k \in 1..Len(h.calls) : h.calls[k].op = "PUT /connector/credential") =>
         h.cred /= 0

-----------------------------------------------------------------------------
(* The selection filters *)

\* the key is a property of the object, whatever it holds
HasKey(json, key) == json[key] /= Absent

\* the first element of C, in the order of C, that satisfies P; undefined when none does
FirstWhere(C, P(_)) ==
  IF \E i \in 1..Len(C) : P(C[i])
  THEN C[CHOOSE i \in 1..Len(C) : P(C[i]) /\ \A j \in 1..(i - 1) : ~P(C[j])]
  ELSE Undefined

\* C6, as the claim states it: for every credential collection C and source S
\* the selected credential is the first element of C whose credential_json
\* contains the marker key of S, and undefined when no element contains it.
C6_SelectsFirstContainingKey ==
  sel.applied = "credential" =>
    sel.credential =
      FirstWhere(sel.creds, LAMBDA c : HasKey(c.credential_json, MarkerKey(sel.source)))

\* C6, amended: the selected credential is the first element of C, in the
\* order of C, whose credential_json holds a truthy (present and non-empty)
\* value under the marker key of S, and undefined when no element does; it is
\* a function of C and S alone.
C6_SelectsFirstWithToken ==
  sel.applied = "credential" =>
    sel.credential =
      FirstWhere(sel.creds, LAMBDA c : Truthy(c.credential_json[MarkerKey(sel.source)]))

\* two credentials carry a token of the source, and the earlier one, which has
\* the greater id, is the one selected
C6_Witness ==
  /\ sel.applied = "credential"
  /\ Len(sel.creds) = 2
  /\ \A i \in 1..2 : Truthy(sel.creds[i].credential_json[MarkerKey(sel.source)])
  /\ sel.creds[1].id > sel.creds[2].id
  /\ sel.credential = sel.creds[1]

\* out is the sub-sequence of in made of the elements that satisfy P
IsSubSequenceWhere(out, in, P(_)) ==
  \E f \in [1..Len(out) -> 1..Len(in)] :
    /\ \A k \in 1..Len(out) : out[k] = in[f[k]]
    /\ \A k, l \in 1..Len(out) : k < l => f[k] < f[l]
    /\ \A i \in 1..Len(in) : P(in[i]) <=> \E k \in 1..Len(out) : f[k] = i

\* C7: for every collection of connector indexing statuses and every source S
\* the per-source list is exactly the sub-sequence of the statuses whose
\* connector.source equals S: the same elements, unchanged, in the same
\* relative order; and computing it leaves the input collection as it was.
C7_SelectsSubSequenceOfSource ==
  /\ [](sel.applied = "connectors" =>
          IsSubSequenceWhere(sel.list, sel.statuses,
                             LAMBDA s : s.connector.source = sel.source))
  /\ [][sel'.statuses = sel.statuses]_vars

\* a status of another source precedes the one status of the source
C7_Witness ==
  /\ sel.applied = "connectors"
  /\ Len(sel.statuses) = 2
  /\ sel.statuses[1].connector.source /= sel.source
  /\ sel.statuses[2].connector.source = sel.source
  /\ sel.list = <<sel.statuses[2]>>

-----------------------------------------------------------------------------
(* Failures of the mutation calls *)

\* the handler got a non-2xx response to its k-th call
FailedAt(h, k) == h.calls[k].status /= 0 /\ ~Ok(h.calls[k].status)

\* C8: when a create, delete, link or upload call returns a non-2xx response,
\* the handler signals no revalidation of a cache key (no mutate, no refresh).
C8_FailureInvalidatesNothing ==
  (\E k \in 1..Len(last.calls) : FailedAt(last, k)) => last.mut = {}

\* the call changes a resource, and the code of the page (not the code of
\* CredentialForm or ConnectorForm) handles its response
PageMutationCall(h, k) ==
  /\ h.calls[k].op /= "GET /authorize"
  /\ h.kind \notin {"createCredential", "createConnector"} \/ k > 1

\* C9: every non-2xx response to a mutation call ends in an error notice
\* whose text holds the HTTP status of that response.
C9_FailureShowsStatus ==
  \A k \in 1..Len(last.calls) :
    (PageMutationCall(last, k) /\ FailedAt(last, k)) =>
      (last.pop.type = "error" /\ last.pop.status = last.calls[k].status)

-----------------------------------------------------------------------------
(* The expiry of the popup *)

\* C10: a popup set through setPopupWithExpiration has a timeout pending that
\* has run for at most 4000 ms; the callback of a timeout runs 4000 ms after
\* it was set and leaves the popup state null; so the popup state becomes null
\* again, with no action of the user.
C10_PopupExpires ==
  /\ [](popup /= NoPopup =>
          (timers /= <<>> /\ timers[Len(timers)] <= PopupTimeoutMs))
  /\ [][Len(timers') < Len(timers) =>
          (timers[1] = PopupTimeoutMs /\ popup' = NoPopup)]_vars
  /\ (popup /= NoPopup) ~> (popup = NoPopup)

\* the error popup of a failed call was shown until its timeout cleared it
C10_Witness ==
  /\ page = "google_drive"
  /\ last.kind = "popupTimeout"
  /\ last.pop.type = "error" /\ last.pop.status /= 0
  /\ popup = NoPopup /\ mounted

-----------------------------------------------------------------------------
(* The table of bot configs *)

\* the rows of pages 1..p, one page after the other
RECURSIVE RowsUpTo(_, _)
RowsUpTo(configs, p) ==
  IF p = 0 THEN <<>> ELSE RowsUpTo(configs, p - 1) \o PageRows(configs, p)

\* C11: for every list of bot configs and every page p in 1..pageCount, the
\* rows shown on page p are the elements of the sorted list at the offsets
\* (p-1)*50 up to but excluding p*50, counted from 0 (fewer on the last page);
\* the page count given to the page selector is ceil(length/50); and pages
\* 1..pageCount together show every config exactly once.
C11_PageShowsItsSlice ==
  tbl.rendered =>
    LET n == Len(tbl.configs)
        P == tbl.totalPages
        first == (tbl.page - 1) * numToDisplay
    IN /\ P * numToDisplay >= n /\ (P - 1) * numToDisplay < n
       /\ tbl.page \in 1..P =>
            tbl.rows = [k \in 1..(Min(tbl.page * numToDisplay, n) - first) |->
                          tbl.configs[first + k]]
       /\ RowsUpTo(tbl.configs, P) = tbl.configs

\* page 2 of 120 configs shows the 50 configs at offsets 50 to 99, of 3 pages
C11_Witness ==
  /\ tbl.rendered
  /\ Len(tbl.configs) = 120 /\ tbl.page = 2 /\ tbl.totalPages = 3
  /\ Len(tbl.rows) = 50
  /\ tbl.rows[1] = tbl.configs[51] /\ tbl.rows[50] = tbl.configs[100]
  /\ tbl.input[1].id = 120

-----------------------------------------------------------------------------
(* Create, link, refetch *)

\* the handler created a connector and linked it, both calls answered 2xx
CreatedAndLinked(h) ==
  /\ h.kind \in {"createConnector", "add"}
  /\ Len(h.calls) = 2
  /\ h.calls[1].op = "POST /connector" /\ Ok(h.calls[1].status)
  /\ h.calls[2].op = "PUT /connector/credential" /\ Ok(h.calls[2].status)

\* C13: round trip. When a connector was created and then linked to the
\* selected credential, both with success, the handler has linked the
\* connector the create call returned to the credential of its render and
\* has signalled the status collection for refetching; and every refetch of
\* the status collection yields, for each connector linked at the backend, an
\* entry whose connector.credential_ids holds the linked credential ids and
\* whose hasCredentialsIssue is false.
C13_LinkedConnectorShowsCredential ==
  /\ [](CreatedAndLinked(last) =>
          /\ last.cred /= 0
          /\ last.calls[2].id = last.conn
          /\ StatusKey(page) \in last.mut
          /\ \A j \in 1..Len(srvConns) :
               srvConns[j].id = last.conn => last.cred \in srvConns[j].credential_ids)
  /\ [][FetchOk(StatusKey(page)) =>
          \A j \in 1..Len(srvConns) :
            srvConns[j].credential_ids /= {} =>
              \E i \in 1..Len(StatusData') :
                /\ StatusData'[i].connector.id = srvConns[j].id
                /\ StatusData'[i].connector.credential_ids = srvConns[j].credential_ids
                /\ ~HasCredentialsIssue(StatusData'[i])]_vars

\* the Google Drive page shows, freshly fetched, the connector it created,
\* linked to the selected credential
C13_Witness ==
  /\ page = "google_drive" /\ CanClick
  /\ StatusKey(page) \notin stale
  /\ Len(SourceStatuses) = 1 /\ CredId /= 0
  /\ CredId \in SourceStatuses[1].connector.credential_ids
  /\ ~HasCredentialsIssue(SourceStatuses[1])

-----------------------------------------------------------------------------
(* The load guards *)

\* the fetch of the collection has failed, or has ended without data
FailedOrNoData(k) == swr[k].error \/ (~swr[k].has /\ ~swr[k].loading)

\* a connector page whose status or credential collection failed to load
LoadFailed ==
  /\ mounted /\ page \in Sources
  /\ FailedOrNoData(StatusKey(page)) \/ FailedOrNoData(CredKey(page))

\* some part of the main view can be acted on
AnyAffordance ==
  \/ CanClick
  \/ DeleteCredentialOffered \/ CredentialFormOffered \/ ConnectorsTableOffered
  \/ ConnectorFormOffered \/ AddOffered \/ DeleteConnectorOffered

\* C14, as the claim states it: whenever the fetch of the status collection
\* or of the credential collection has failed or has returned no data, the
\* page renders the blocking "Failed to load" message and nothing else.
C14_FailedLoadShowsMessage == LoadFailed => View = "failed"

\* C14, amended: in such a state the page renders no part of the main view,
\* hence no credential panel, no connector table and no create, link or
\* delete affordance: it renders only the "Failed to load" message, or only
\* the loading animation while a fetch of another collection of the page is
\* still pending.
C14_FailedLoadBlocksMainView ==
  LoadFailed =>
    /\ ~AnyAffordance
    /\ \/ View = "failed"
       \/ View = "loading" /\ \E k \in PageKeys(page) : swr[k].loading

\* a refetch of the credentials failed after a credential had been fetched:
\* the page shows the message, not the credential it still holds
C14_Witness ==
  /\ mounted /\ page = "slack"
  /\ swr[CredKey(page)].error /\ swr[CredKey(page)].has
  /\ SourceCredential /= Undefined
  /\ View = "failed"

-----------------------------------------------------------------------------
(* Invalidation after a mutation *)

\* the handler created a credential: its POST was answered 2xx
CreatedCredential(h) ==
  \E k \in 1..Len(h.calls) :
    h.calls[k].op = "POST /credential" /\ Ok(h.calls[k].status)

\* C15: a handler that created a credential and returned to the page has
\* signalled the credential collection for refetching, so that the page does
\* not read the collection it fetched before the creation.
C15_CreationInvalidatesCredentials ==
  (CreatedCredential(last) /\ last.pc = "returned") => CredKey(page) \in last.mut

\* C16: the deletion of a connector has no guard: every click on Delete
\* Connector issues the DELETE of the connector shown, whatever credentials
\* it is linked to; nothing is shown or invalidated before the call has
\* resolved; and when the call has succeeded the success notice is set and
\* the status collection is signalled for refetching.
C16_ConnectorDeleteUnguarded ==
  \A h \in Handlers :
    h.kind = "deleteConnector" =>
      /\ Len(h.calls) = 1
      /\ h.calls[1].op = "DELETE /connector" /\ h.calls[1].id = h.conn
      /\ h.calls[1].status = 0 => (h.mut = {} /\ h.pop = NoPopup)
      /\ (h.pc = "returned" /\ Ok(h.calls[1].status)) =>
           (h.pop = ConnectorDeleted /\ StatusKey(page) \in h.mut)

\* a connector linked to the selected credential was deleted with success
C16_Witness ==
  /\ last.kind = "deleteConnector" /\ last.pc = "returned"
  /\ last.linked
  /\ Ok(last.calls[1].status)
  /\ ~ConnExists(last.conn)
  /\ StatusKey(page) \in stale

\* the call the handler is waiting for
HasPendingCall(h) == h.calls /= <<>> /\ h.calls[Len(h.calls)].status = 0

\* C17: no handler retries a call. Every handler issues each of its calls at
\* most once; and a step puts a call in flight only when it is a click, which
\* starts a new handler with its first call, or when the previous call of the
\* handler was answered 2xx and the handler goes on to its next call: after
\* a failed answer nothing is issued until the user clicks again.
C17_NoAutomaticRetry ==
  /\ [](\A h \in Handlers : \A i, j \in 1..Len(h.calls) :
          i /= j => h.calls[i].op /= h.calls[j].op)
  /\ [][\A h \in Range(procs') \ Range(procs) :
          HasPendingCall(h) =>
            \/ Len(h.calls) = 1 /\ Len(procs') = Len(procs) + 1
            \/ /\ Len(h.calls) > 1 /\ Len(procs') = Len(procs)
               /\ Ok(h.calls[Len(h.calls) - 1].status)]_vars

\* a workflow whose second call failed returned with these two calls only,
\* and a refused deletion of a bot configuration with its one call
C17_Witness ==
  /\ last.pc = "returned"
  /\ \/ Len(last.calls) = 2 /\ Ok(last.calls[1].status) /\ FailedAt(last, 2)
     \/ last.kind = "deleteBotConfig" /\ Len(last.calls) = 1 /\ FailedAt(last, 1)

\* C18: once the page component is unmounted, the responses and popup
\* timers of its requests change nothing on the client: no popup state is
\* set, no cache key is signalled for refetching, no navigation is performed.
C18_UnmountDiscardsResults ==
  [][~mounted => /\ popup' = popup
                 /\ stale' \subseteq stale
                 /\ navigated' = navigated]_vars

\* the status row is rendered: the main view of the Google Drive page with a
\* Google Drive connector in the snapshot
StatusRowRendered ==
  mounted /\ page = "google_drive" /\ View = "main" /\ Len(SourceStatuses) > 0

\* the prop hasCredentialsIssue of this render
StatusRowHasCredentialsIssue == HasCredentialsIssue(SourceStatuses[1])

\* C19: whenever the status row is rendered, its hasCredentialsIssue is
\* true exactly when the first Google Drive connector of the snapshot held
\* by the cache lists no credential id.
C19_CredentialsIssueFollowsSnapshot ==
  StatusRowRendered =>
    \A i \in 1..Len(StatusData) :
      (/\ StatusData[i].connector.source = page
       /\ \A j \in 1..(i - 1) : StatusData[j].connector.source /= page)
      => (StatusRowHasCredentialsIssue <=> StatusData[i].connector.credential_ids = {})

\* the row reports an issue for a Google Drive connector without credential
\* ids that comes second in the snapshot, while a credential is selected
C19_Witness ==
  /\ StatusRowRendered
  /\ StatusRowHasCredentialsIssue
  /\ SourceCredential /= Undefined
  /\ Len(StatusData) > 1 /\ StatusData[1].connector.source /= page
  /\ SourceStatuses[1].connector.credential_ids = {}

\* the guard of the credential deletion fails: the click was made while a
\* status of the snapshot lists the selected credential
GuardFailed(h) == h.kind = "deleteCredential" /\ h.linked

\* C20: a click on the delete button of a credential that a fetched status
\* lists ends at once as a guard error: the handler has returned with the
\* error popup "Must delete all connectors before deleting credentials",
\* has issued no call and signalled no cache key, and the step it took left
\* the backend and the invalidated keys as they were.
C20_GuardFailureIsGuardError ==
  /\ [](\A h \in Handlers :
          GuardFailed(h) =>
            /\ h.pc = "returned" /\ h.pop = MustDeleteConnectors
            /\ h.calls = <<>> /\ h.mut = {})
  /\ [][GuardFailed(last') => (srvVars' = srvVars /\ stale' = stale)]_vars

\* C21: the handler of Authenticate with Google Drive first issues the POST
\* of the credential; it issues the GET of the authorization url only after
\* the POST was answered 2xx, for the id of the credential the POST created;
\* it navigates only when both calls were answered 2xx, and only it
\* navigates; when a call is answered non-2xx it sets the error popup with
\* that status and returns with no navigation and no further call.
C21_OAuthKickoffInOrder ==
  /\ [](\A h \in Handlers :
          h.kind = "authenticate" =>
            /\ Len(h.calls) \in 1..2
            /\ h.calls[1].op = "POST /credential"
            /\ Len(h.calls) = 2 =>
                 (Ok(h.calls[1].status) /\ h.calls[2].op = "GET /authorize")
            /\ h.pc = "navigated" =>
                 (Len(h.calls) = 2 /\ Ok(h.calls[2].status) /\ navigated)
            /\ h.pc = "returned" =>
                 /\ FailedAt(h, Len(h.calls))
                 /\ h.pop = FailedToCreateCredential(h.calls[Len(h.calls)].status)
                 /\ h.pop.type = "error"
            /\ FailedAt(h, 1) => Len(h.calls) = 1)
  /\ [][\A i \in Slots :
          AuthCredentialResponse(i, 200) =>
            procs'[i].calls[2].id = srvCreds'[Len(srvCreds')].id]_vars
  /\ [][navigated' /= navigated =>
          (last'.kind = "authenticate" /\ last'.pc = "navigated")]_vars
  /\ [][(last'.kind = "authenticate" /\ last'.pc = "returned") =>
          navigated' = navigated]_vars

\* both calls succeeded and the page was left for auth_url
C21_Witness ==
  /\ last.kind = "authenticate" /\ last.pc = "navigated"
  /\ navigated
  /\ Ok(last.calls[1].status) /\ Ok(last.calls[2].status)
  /\ \E i \in 1..Len(srvCreds) : srvCreds[i].id = last.calls[2].id

\* C22: whenever the bot-config table is rendered, its page is one of
\* 1..max(1, pageCount), and it shows at least one row when there is at
\* least one config.
C22_PageWithinRange ==
  tbl.rendered =>
    /\ tbl.page >= 1
    /\ tbl.page <= (IF tbl.totalPages > 1 THEN tbl.totalPages ELSE 1)
    /\ tbl.configs /= <<>> => tbl.rows /= <<>>

\* C23: on the Google Drive page the callback of a timeout clears only the
\* popup it was started for: when it runs while a popup is shown, the
\* timeout started with that popup, the youngest one, has itself run its
\* 4000 ms.
C23_TimerClearsOwnPopup ==
  [][(page = "google_drive" /\ Len(timers') < Len(timers) /\ popup /= NoPopup) =>
       timers[Len(timers)] >= PopupTimeoutMs]_vars

\* the step is a click on Add: a new handler of Add is in flight
AddClicked == Len(procs') = Len(procs) + 1 /\ procs'[Len(procs')].kind = "add"

\* C24: on the Google Drive page a click on Add issues its create-connector
\* POST only when no earlier Add is in flight and no connector was created
\* since the cached status collection last showed none: in one such period
\* at most one POST is issued, so at most one connector is created.
C24_OneAddInFlight ==
  [][AddClicked =>
       /\ \A i \in 1..Len(procs) : procs[i].kind /= "add"
       /\ \A j \in 1..Len(srvConns) : srvConns[j].source /= "google_drive"]_vars

\* C25: whenever SourceSelector renders, every source it shows has an icon:
\* the render does not throw.
C25_EveryShownSourceHasIcon ==
  selector.rendered /= "no" =>
    /\ selector.rendered = "yes"
    /\ \A k \in 1..Len(selector.shown) : selector.icons[k] /= Thrown

\* the internalName of every entry occurs once in the list
NoDuplicateNames(list) ==
  \A i, j \in 1..Len(list) : list[i].internalName = list[j].internalName => i = j

\* the last click appended an unselected source or removed a selected one
ToggledLastClick ==
  selector.clicked /= NoSource =>
    IF Includes(selector.prev, selector.clicked)
    THEN /\ ~Includes(selector.selectedSources, selector.clicked)
         /\ selector.selectedSources =
              SelectSeq(selector.prev, LAMBDA s : s /= selector.clicked)
    ELSE selector.selectedSources = Append(selector.prev, selector.clicked)

\* C26, as the claim states it: the last click toggled the source; selecting
\* any shown source twice gives the selected list back as it was; and the
\* list holds no two entries of the same internalName.
C26_SelectTwiceRestoresList ==
  /\ ToggledLastClick
  /\ NoDuplicateNames(selector.selectedSources)
  /\ \A k \in 1..Len(selector.shown) :
       handleSelect(handleSelect(selector.selectedSources, selector.shown[k]),
                    selector.shown[k]) = selector.selectedSources

\* C26, amended: the last click toggled the source; selecting any shown
\* source twice gives back a list of the same entries, and the very same
\* list when the source was not selected (a selected source moves to the
\* end); and the list holds no two entries of the same internalName.
C26_SelectTwiceRestoresEntries ==
  /\ ToggledLastClick
  /\ NoDuplicateNames(selector.selectedSources)
  /\ \A k \in 1..Len(selector.shown) :
       LET twice == handleSelect(handleSelect(selector.selectedSources,
                                              selector.shown[k]), selector.shown[k])
       IN /\ Range(twice) = Range(selector.selectedSources)
          /\ Len(twice) = Len(selector.selectedSources)
          /\ NoDuplicateNames(twice)
          /\ ~Includes(selector.selectedSources, selector.shown[k]) =>
               twice = selector.selectedSources
          /\ Includes(selector.selectedSources, selector.shown[k]) =>
               twice[Len(twice)] = selector.shown[k]

\* a selected source was clicked and left the middle of a list of three
C26_Witness ==
  /\ Len(selector.prev) = 3
  /\ selector.clicked = selector.prev[2]
  /\ selector.selectedSources = <<selector.prev[1], selector.prev[3]>>

====
